---- MODULE Spec2Model ----
(***************************************************************************)
(* Model of the image feed slice of civitai:                               *)
(*   - Feed (components/ImageGeneration/Feed.tsx): the local view state    *)
(*     (layout, selectedItems, variantModalOpened) and the infinite paging *)
(*     effect;                                                             *)
(*   - useQueryImages (components/Image/image.utils.ts): the infinite      *)
(*     query and the client-side visibility filter;                        *)
(*   - ImagesAsPostsCard: the card height computation.                     *)
(* Each part has its own specification (SpecView, SpecPaging, SpecLive,    *)
(* SpecFilter, SpecCard); the variables of the other parts stay at their   *)
(* initial values.                                                         *)
(***************************************************************************)
EXTENDS Integers, Sequences, FiniteSets, TLC

VARIABLES
    state,        \* Feed: useState<State> {layout, selectedItems, variantModalOpened}
    lastOp,       \* history: the last Feed event handler that ran, with its arguments
    before,       \* history: the value of `state` the last handler started from
    total,        \* number of pages the remote source holds
    pages,        \* infinite query: data.pages, the accumulated pages
    requests,     \* page requests in flight, oldest first
    isFetching,   \* infinite query flag: some request is in flight
    isLoading,    \* infinite query flag: the first page is in flight, no data yet
    isRefetching, \* infinite query flag
    isError,      \* infinite query flag: the last request failed
    inView,       \* useInView(): the sentinel is in the viewport
    effectPending,\* the paging effect's dependencies changed since it last ran
    callLog,      \* history: who called fetchNextPage in the last step
    data,         \* useQueryImages: data.pages of the image query
    currentUser,  \* useCurrentUser()
    hiddenImages, \* useHiddenPreferencesContext().images
    hiddenTags,   \* useHiddenPreferencesContext().tags
    hiddenUsers,  \* useHiddenPreferencesContext().users
    isLoadingHidden, \* useHiddenPreferencesContext().isLoading
    images,       \* useQueryImages: the memoised filtered list
    cardWidth,    \* ImagesAsPostsCard: the width prop
    cover,        \* ImagesAsPostsCard: data.images[0]
    mounted,      \* ImagesAsPostsCard: the card has rendered
    height        \* ImagesAsPostsCard: the memoised height

viewVars == <<state, lastOp, before>>

pagingVars == <<total, pages, requests, isFetching, isLoading, isRefetching,
                isError, inView, effectPending, callLog>>

filterVars == <<data, currentUser, hiddenImages, hiddenTags, hiddenUsers,
                isLoadingHidden, images>>

vars == <<state, lastOp, before, total, pages, requests, isFetching, isLoading,
          isRefetching, isError, inView, effectPending, callLog,
          data, currentUser, hiddenImages, hiddenTags, hiddenUsers,
          isLoadingHidden, images, cardWidth, cover, mounted, height>>

cardVars == <<cardWidth, cover, mounted, height>>

----------------------------------------------------------------------------
(* Bounds *)

MaxImageId == 3      \* image ids are 1..MaxImageId
MaxSelected == 3     \* cap on the length of selectedItems
MaxServerPages == 6  \* the remote source holds 1..MaxServerPages pages
MaxDataPages == 2    \* pages of the image query; page k carries image k
MaxUser == 2         \* user ids are 1..MaxUser
MaxTag == 2          \* tag ids are 1..MaxTag
MaxHidden == 1       \* cap on the entries of each hidden-preference map
MaxDimK == 9         \* cover dimensions are 0, 100, .. 100 * MaxDimK, or absent
MaxWidthK == 9       \* card widths are -50, 0, 50, .. 50 * MaxWidthK

ImageIds == 1..MaxImageId

----------------------------------------------------------------------------
(* Helpers *)

Range(s) == {s[i] : i \in 1..Len(s)}

NoDuplicates(s) == \A i, j \in 1..Len(s) : s[i] = s[j] => i = j

----------------------------------------------------------------------------
(* Feed view state (Feed.tsx)                                              *)

InitialState == [layout |-> "grid", selectedItems |-> <<>>, variantModalOpened |-> FALSE]

NoOp == [op |-> "none", id |-> 0, checked |-> FALSE]

\* no session user (useCurrentUser() returns nothing)
Anonymous == [anonymous |-> TRUE]

\* a hidden-preference Map without entries
EmptyMap == [k \in {} |-> TRUE]

\* the hook as mounted: no page yet, preferences loading with empty maps
FilterIdle ==
    /\ data = <<>>
    /\ currentUser = Anonymous
    /\ hiddenImages = EmptyMap
    /\ hiddenTags = EmptyMap
    /\ hiddenUsers = EmptyMap
    /\ isLoadingHidden = TRUE
    /\ images = <<>>

\* no card rendered
CardIdle ==
    /\ cardWidth = 0
    /\ cover = [id |-> 1]
    /\ mounted = FALSE
    /\ height = 0

\* the Feed as mounted: nothing selected, grid layout, modal closed
ViewIdle ==
    /\ state = InitialState
    /\ lastOp = NoOp
    /\ before = InitialState

\* onClick of the layout ActionIcon
toggleLayout(current) ==
    [current EXCEPT !.layout = IF current.layout = "grid" THEN "list" ELSE "grid"]

\* mutant: the unchecked branch filters with the predicate inverted
onCheckboxClick_InvertedFilter(current, id, checked) ==
    IF checked
    THEN [current EXCEPT !.selectedItems = Append(current.selectedItems, id)]
    ELSE [current EXCEPT !.selectedItems =
              SelectSeq(current.selectedItems, LAMBDA x : x = id)]

\* FeedItem onCheckboxClick({image, checked})
onCheckboxClick(current, id, checked) ==
    IF checked
    THEN [current EXCEPT !.selectedItems = Append(current.selectedItems, id)]
    ELSE [current EXCEPT !.selectedItems =
              SelectSeq(current.selectedItems, LAMBDA x : x # id)]

\* mutant: the variant request adds to the selection instead of replacing it
onCreateVariantClick_Appends(current, id) ==
    [current EXCEPT !.variantModalOpened = TRUE,
                    !.selectedItems = Append(current.selectedItems, id)]

\* FeedItem onCreateVariantClick(image)
onCreateVariantClick(current, id) ==
    [current EXCEPT !.variantModalOpened = TRUE, !.selectedItems = <<id>>]

\* FloatingActions selectCount prop
selectCount(current) == Len(current.selectedItems)

\* FloatingActions onDeselectClick
onDeselectClick(current) ==
    [current EXCEPT !.selectedItems = <<>>]

\* mutant: closing the modal keeps the selection
onClose_KeepsSelection(current) ==
    [current EXCEPT !.variantModalOpened = FALSE]

\* CreateVariantsModal onClose
onClose(current) ==
    [current EXCEPT !.variantModalOpened = FALSE, !.selectedItems = <<>>]

ToggleLayout ==
    /\ state' = toggleLayout(state)
    /\ lastOp' = [op |-> "toggleLayout", id |-> 0, checked |-> FALSE]
    /\ before' = state

CheckboxClick ==
    \E id \in ImageIds, checked \in BOOLEAN :
        /\ checked => Len(state.selectedItems) < MaxSelected
        /\ state' = onCheckboxClick(state, id, checked)
        /\ lastOp' = [op |-> "checkbox", id |-> id, checked |-> checked]
        /\ before' = state

CreateVariantClick ==
    \E id \in ImageIds :
        /\ state' = onCreateVariantClick(state, id)
        /\ lastOp' = [op |-> "createVariant", id |-> id, checked |-> FALSE]
        /\ before' = state

\* the FloatingActions card is mounted only while selectCount > 0
DeselectClick ==
    /\ Len(state.selectedItems) > 0
    /\ state' = onDeselectClick(state)
    /\ lastOp' = [op |-> "deselect", id |-> 0, checked |-> FALSE]
    /\ before' = state

\* the modal can be closed only while it is opened
CloseModal ==
    /\ state.variantModalOpened
    /\ state' = onClose(state)
    /\ lastOp' = [op |-> "close", id |-> 0, checked |-> FALSE]
    /\ before' = state

----------------------------------------------------------------------------
(* Infinite query (image.utils.ts useQueryImages) and the paging effect of *)
(* Feed (Feed.tsx)                                                         *)

\* nextCursor of the last page the remote source holds (undefined)
NoCursor == 0

\* page param of the first page (undefined: the query starts from the beginning)
FirstPageParam == 1

\* the remote source: page k carries the cursor of page k+1, the last none
ServerPage(param) ==
    [index |-> param,
     nextCursor |-> IF param < total THEN param + 1 ELSE NoCursor]

\* getNextPageParam: (lastPage) => lastPage.nextCursor
getNextPageParam(lastPage) == lastPage.nextCursor

\* hasNextPage of the infinite query: the last page yields a page param
hasNextPage ==
    /\ pages # <<>>
    /\ getNextPageParam(pages[Len(pages)]) # NoCursor

\* {hasNextPage && !isLoading && !isRefetching && (<Center ref={ref} ...>)}
SentinelRendered == hasNextPage /\ ~isLoading /\ ~isRefetching

\* mutant: the effect does not depend on isFetching
EffectDeps_NoIsFetching == <<inView, isError>>

\* dependency list of the paging effect (fetchNextPage is a stable reference)
EffectDeps == <<inView, isFetching, isError>>

\* mutant: the trigger ignores the error flag
ShouldFetch_IgnoresError == inView /\ ~isFetching

\* condition of the paging effect: inView && !isFetching && !isError
ShouldFetch == inView /\ ~isFetching /\ ~isError

\* what a render commits after the query state changed: the observer reports
\* the sentinel out of view when it is unmounted, and an effect is scheduled
\* when one of its dependencies changed
Commit(resetEffect) ==
    /\ inView' = (inView /\ SentinelRendered')
    /\ effectPending' = ((effectPending /\ ~resetEffect) \/ EffectDeps' # EffectDeps)

\* mutant: fetchNextPage issues a request whatever is in flight
fetchNextPage_NoInFlightCheck ==
    /\ IF hasNextPage
       THEN /\ requests' = Append(requests,
                   [kind |-> "next", param |-> getNextPageParam(pages[Len(pages)])])
            /\ isFetching' = TRUE
            /\ isRefetching' \in BOOLEAN
       ELSE UNCHANGED <<requests, isFetching, isRefetching>>
    /\ UNCHANGED <<total, pages, isLoading, isError>>

\* fetchNextPage(): requests the page after the last one; a no-op while a
\* request is in flight or when the last page carries no cursor.  Whether a
\* next-page fetch raises isRefetching is left open.
fetchNextPage ==
    /\ IF ~isFetching /\ hasNextPage
       THEN /\ requests' = Append(requests,
                   [kind |-> "next", param |-> getNextPageParam(pages[Len(pages)])])
            /\ isFetching' = TRUE
            /\ isRefetching' \in BOOLEAN
       ELSE UNCHANGED <<requests, isFetching, isRefetching>>
    /\ UNCHANGED <<total, pages, isLoading, isError>>

\* useEffect(() => { if (inView && !isFetching && !isError) fetchNextPage?.() }, [...])
RunEffect ==
    /\ effectPending
    /\ IF ShouldFetch
       THEN fetchNextPage /\ callLog' = "effect"
       ELSE /\ UNCHANGED <<total, pages, requests, isFetching, isLoading,
                           isRefetching, isError>>
            /\ callLog' = "none"
    /\ Commit(TRUE)

\* a consumer of the hook calls the fetchNextPage it returns
CallFetchNextPage ==
    /\ fetchNextPage
    /\ callLog' = "consumer"
    /\ Commit(FALSE)

\* the oldest request in flight resolves with its page(s)
FetchSucceeds ==
    /\ requests # <<>>
    /\ pages' = IF requests[1].kind = "next"
                THEN Append(pages, ServerPage(requests[1].param))
                ELSE IF pages = <<>> THEN <<ServerPage(FirstPageParam)>> ELSE pages
    /\ requests' = Tail(requests)
    /\ isFetching' = (requests' # <<>>)
    /\ isLoading' = FALSE
    /\ isRefetching' = FALSE
    /\ isError' = FALSE
    /\ callLog' = "none"
    /\ UNCHANGED total
    /\ Commit(FALSE)

\* the oldest request in flight fails
FetchFails ==
    /\ requests # <<>>
    /\ requests' = Tail(requests)
    /\ isFetching' = (requests' # <<>>)
    /\ isLoading' = FALSE
    /\ isRefetching' = FALSE
    /\ isError' = TRUE
    /\ callLog' = "none"
    /\ UNCHANGED <<total, pages>>
    /\ Commit(FALSE)

\* the query refetches what it holds (or retries the first page)
Refetch ==
    /\ ~isFetching
    /\ requests' = Append(requests, [kind |-> "refetch", param |-> FirstPageParam])
    /\ isFetching' = TRUE
    /\ isLoading' = (pages = <<>>)
    /\ isRefetching' = (pages # <<>>)
    /\ callLog' = "none"
    /\ UNCHANGED <<total, pages, isError>>
    /\ Commit(FALSE)

\* the intersection observer reports the rendered sentinel in the viewport
SentinelEntersView ==
    /\ SentinelRendered
    /\ ~inView
    /\ inView' = TRUE
    /\ effectPending' = TRUE
    /\ callLog' = "none"
    /\ UNCHANGED <<total, pages, requests, isFetching, isLoading, isRefetching, isError>>

\* the intersection observer reports the sentinel out of the viewport
SentinelLeavesView ==
    /\ inView
    /\ inView' = FALSE
    /\ effectPending' = TRUE
    /\ callLog' = "none"
    /\ UNCHANGED <<total, pages, requests, isFetching, isLoading, isRefetching, isError>>

\* the query is mounted and the first page is in flight; the effect runs on mount
PagingMounted ==
    /\ pages = <<>>
    /\ requests = <<[kind |-> "initial", param |-> FirstPageParam]>>
    /\ isFetching = TRUE
    /\ isLoading = TRUE
    /\ isRefetching = FALSE
    /\ isError = FALSE
    /\ inView = FALSE
    /\ effectPending = TRUE
    /\ callLog = "none"

PagingIdle ==
    /\ total = 1
    /\ PagingMounted

InitPaging ==
    /\ CardIdle
    /\ ViewIdle
    /\ FilterIdle
    /\ total \in 1..MaxServerPages
    /\ PagingMounted

NextPaging ==
    \/ RunEffect /\ UNCHANGED <<viewVars, filterVars, cardVars>>
    \/ CallFetchNextPage /\ UNCHANGED <<viewVars, filterVars, cardVars>>
    \/ FetchSucceeds /\ UNCHANGED <<viewVars, filterVars, cardVars>>
    \/ FetchFails /\ UNCHANGED <<viewVars, filterVars, cardVars>>
    \/ Refetch /\ UNCHANGED <<viewVars, filterVars, cardVars>>
    \/ SentinelEntersView /\ UNCHANGED <<viewVars, filterVars, cardVars>>
    \/ SentinelLeavesView /\ UNCHANGED <<viewVars, filterVars, cardVars>>

SpecPaging == InitPaging /\ [][NextPaging]_vars

\* the sentinel is in the viewport whenever it is rendered and every fetch
\* completes without error: only the effect, the observer's report and the
\* completions act, and none of them is postponed forever
NextLive ==
    \/ RunEffect /\ UNCHANGED <<viewVars, filterVars, cardVars>>
    \/ FetchSucceeds /\ UNCHANGED <<viewVars, filterVars, cardVars>>
    \/ SentinelEntersView /\ UNCHANGED <<viewVars, filterVars, cardVars>>

SpecLive ==
    /\ InitPaging
    /\ [][NextLive]_vars
    /\ WF_vars(RunEffect /\ UNCHANGED <<viewVars, filterVars, cardVars>>)
    /\ WF_vars(FetchSucceeds /\ UNCHANGED <<viewVars, filterVars, cardVars>>)
    /\ WF_vars(SentinelEntersView /\ UNCHANGED <<viewVars, filterVars, cardVars>>)

----------------------------------------------------------------------------
(* Visibility filter of useQueryImages (image.utils.ts)                    *)

UserIds == 1..MaxUser
TagIds == 1..MaxTag
DataImageIds == 1..MaxDataPages

\* ImageIngestionStatus
IngestionStatuses == {"Pending", "Scanned"}

\* tag id lists: the ascending lists over TagIds
TagLists ==
    {t \in UNION {[1..n -> TagIds] : n \in 0..MaxTag} :
        \A i \in 1..(Len(t) - 1) : t[i] < t[i + 1]}

\* the images the remote source may return with a given id; tagIds is optional
ItemsWithId(id) ==
    {[id |-> id, user |-> [id |-> u], ingestion |-> g] :
        u \in UserIds, g \in IngestionStatuses}
    \cup
    {[id |-> id, user |-> [id |-> u], ingestion |-> g, tagIds |-> t] :
        u \in UserIds, g \in IngestionStatuses, t \in TagLists}

\* useCurrentUser(): the session user, or nothing when anonymous
Viewers == {Anonymous} \cup {[id |-> u] : u \in UserIds}

\* a hidden-preference Map: the keys it holds all map to true
HiddenMaps(keys) ==
    {[k \in ks |-> TRUE] : ks \in {x \in SUBSET keys : Cardinality(x) <= MaxHidden}}

\* Map.get(key) used as a condition: undefined (no entry) is falsy
MapGet(m, key) == IF key \in DOMAIN m THEN m[key] ELSE FALSE

\* x.user.id === currentUser?.id
IsCurrentUser(x, user) == "id" \in DOMAIN user /\ x.user.id = user.id

\* x.tagIds ?? []
TagIdsOf(x) == IF "tagIds" \in DOMAIN x THEN x.tagIds ELSE <<>>

\* for (const tag of x.tagIds ?? []) if (hiddenTags.get(tag)) return false
RECURSIVE HasHiddenTag(_, _, _)
HasHiddenTag(tags, i, hTags) ==
    IF i > Len(tags) THEN FALSE
    ELSE IF MapGet(hTags, tags[i]) THEN TRUE
    ELSE HasHiddenTag(tags, i + 1, hTags)

\* mutant: the ingestion check comes before the owner check
Visible_ScanCheckFirst(x, user, hImages, hTags, hUsers) ==
    IF x.ingestion # "Scanned" THEN FALSE
    ELSE IF IsCurrentUser(x, user) THEN TRUE
    ELSE IF MapGet(hImages, x.id) THEN FALSE
    ELSE IF MapGet(hUsers, x.user.id) THEN FALSE
    ELSE IF HasHiddenTag(TagIdsOf(x), 1, hTags) THEN FALSE
    ELSE TRUE

\* mutant: only the first tag of the image is looked up
Visible_FirstTagOnly(x, user, hImages, hTags, hUsers) ==
    IF IsCurrentUser(x, user) THEN TRUE
    ELSE IF x.ingestion # "Scanned" THEN FALSE
    ELSE IF MapGet(hImages, x.id) THEN FALSE
    ELSE IF MapGet(hUsers, x.user.id) THEN FALSE
    ELSE IF TagIdsOf(x) # <<>> /\ MapGet(hTags, TagIdsOf(x)[1]) THEN FALSE
    ELSE TRUE

\* the predicate of arr.filter((x) => ...)
Visible(x, user, hImages, hTags, hUsers) ==
    IF IsCurrentUser(x, user) THEN TRUE
    ELSE IF x.ingestion # "Scanned" THEN FALSE
    ELSE IF MapGet(hImages, x.id) THEN FALSE
    ELSE IF MapGet(hUsers, x.user.id) THEN FALSE
    ELSE IF HasHiddenTag(TagIdsOf(x), 1, hTags) THEN FALSE
    ELSE TRUE

\* data?.pages.flatMap((x) => x.items) ?? []
RECURSIVE FlatMapItems(_)
FlatMapItems(ps) ==
    IF ps = <<>> THEN <<>> ELSE ps[1].items \o FlatMapItems(Tail(ps))

\* mutant: the list is filtered while the preferences are still loading
useMemoImages_NoLoadingGuard(d, user, hImages, hTags, hUsers, loading) ==
    SelectSeq(FlatMapItems(d), LAMBDA x : Visible(x, user, hImages, hTags, hUsers))

\* const images = useMemo(() => {...}, [data, currentUser, hiddenImages, ...])
useMemoImages(d, user, hImages, hTags, hUsers, loading) ==
    IF loading THEN <<>>
    ELSE SelectSeq(FlatMapItems(d), LAMBDA x : Visible(x, user, hImages, hTags, hUsers))

\* the memo is recomputed whenever one of its inputs changed
Recompute ==
    images' = useMemoImages(data', currentUser', hiddenImages', hiddenTags',
                            hiddenUsers', isLoadingHidden')

\* the image query delivers its next page
PageArrives ==
    /\ Len(data) < MaxDataPages
    /\ \E x \in ItemsWithId(Len(data) + 1) :
           data' = Append(data, [items |-> <<x>>])
    /\ UNCHANGED <<currentUser, hiddenImages, hiddenTags, hiddenUsers, isLoadingHidden>>
    /\ Recompute

\* the hidden preferences finish loading
HiddenLoaded ==
    /\ isLoadingHidden
    /\ isLoadingHidden' = FALSE
    /\ hiddenImages' \in HiddenMaps(DataImageIds)
    /\ hiddenTags' \in HiddenMaps(TagIds)
    /\ hiddenUsers' \in HiddenMaps(UserIds)
    /\ UNCHANGED <<data, currentUser>>
    /\ Recompute

\* the viewer hides or unhides an image, a tag or a user
HiddenChanges ==
    /\ ~isLoadingHidden
    /\ \/ /\ hiddenImages' \in HiddenMaps(DataImageIds) \ {hiddenImages}
          /\ UNCHANGED <<hiddenTags, hiddenUsers>>
       \/ /\ hiddenTags' \in HiddenMaps(TagIds) \ {hiddenTags}
          /\ UNCHANGED <<hiddenImages, hiddenUsers>>
       \/ /\ hiddenUsers' \in HiddenMaps(UserIds) \ {hiddenUsers}
          /\ UNCHANGED <<hiddenImages, hiddenTags>>
    /\ UNCHANGED <<data, currentUser, isLoadingHidden>>
    /\ Recompute

\* the session changes (sign in, sign out)
SessionChanges ==
    /\ currentUser' \in Viewers \ {currentUser}
    /\ UNCHANGED <<data, hiddenImages, hiddenTags, hiddenUsers, isLoadingHidden>>
    /\ Recompute

InitFilter ==
    /\ CardIdle
    /\ ViewIdle
    /\ PagingIdle
    /\ data = <<>>
    /\ currentUser \in Viewers
    /\ hiddenImages = EmptyMap
    /\ hiddenTags = EmptyMap
    /\ hiddenUsers = EmptyMap
    /\ isLoadingHidden = TRUE
    /\ images = <<>>

NextFilter ==
    \/ PageArrives /\ UNCHANGED <<viewVars, pagingVars, cardVars>>
    \/ HiddenLoaded /\ UNCHANGED <<viewVars, pagingVars, cardVars>>
    \/ HiddenChanges /\ UNCHANGED <<viewVars, pagingVars, cardVars>>
    \/ SessionChanges /\ UNCHANGED <<viewVars, pagingVars, cardVars>>

SpecFilter == InitFilter /\ [][NextFilter]_vars

----------------------------------------------------------------------------
(* Claims about the visibility filter                                      *)

AllItems == Range(FlatMapItems(data))

IsMarkedHidden(m, key) == key \in DOMAIN m /\ m[key] = TRUE

\* C1 as stated: every fetched image owned by the viewer is in `images`,
\* whatever the hidden maps and its ingestion status are.
C1_Original ==
    \A x \in AllItems : IsCurrentUser(x, currentUser) => x \in Range(images)

\* C1 amended: once the hidden preferences have loaded, every fetched image
\* owned by the viewer is in `images`, whatever the hidden maps and its
\* ingestion status are.
C1_OwnImagesIncluded ==
    ~isLoadingHidden =>
        \A x \in AllItems : IsCurrentUser(x, currentUser) => x \in Range(images)

\* the viewer's own image is shown although it is not scanned and both it and
\* its owner are marked hidden
C1_Witness ==
    /\ ~isLoadingHidden
    /\ \E x \in Range(images) :
          /\ IsCurrentUser(x, currentUser)
          /\ x.ingestion # "Scanned"
          /\ IsMarkedHidden(hiddenImages, x.id)
          /\ IsMarkedHidden(hiddenUsers, x.user.id)

\* C2: with the preferences loaded, an image of another owner (or any image
\* for an anonymous viewer) is in `images` exactly when it is Scanned, its id
\* is not marked hidden, its owner is not marked hidden and none of its tag
\* ids (none when the list is absent) is marked hidden.
C2_OthersImagesFiltered ==
    ~isLoadingHidden =>
        \A x \in AllItems :
            ~IsCurrentUser(x, currentUser) =>
                (x \in Range(images) <=>
                    /\ x.ingestion = "Scanned"
                    /\ ~IsMarkedHidden(hiddenImages, x.id)
                    /\ ~IsMarkedHidden(hiddenUsers, x.user.id)
                    /\ \A i \in 1..Len(TagIdsOf(x)) :
                           ~IsMarkedHidden(hiddenTags, TagIdsOf(x)[i]))

\* of two scanned images of other owners, the one without a tag list is shown
\* and the one whose second tag is hidden is not
C2_Witness ==
    /\ ~isLoadingHidden
    /\ Len(data) = 2
    /\ Len(images) = 1
    /\ \A x \in AllItems : ~IsCurrentUser(x, currentUser) /\ x.ingestion = "Scanned"
    /\ \E x \in Range(images) : "tagIds" \notin DOMAIN x
    /\ \E x \in AllItems :
          /\ x \notin Range(images)
          /\ Len(TagIdsOf(x)) = 2
          /\ ~IsMarkedHidden(hiddenTags, TagIdsOf(x)[1])
          /\ IsMarkedHidden(hiddenTags, TagIdsOf(x)[2])
          /\ ~IsMarkedHidden(hiddenImages, x.id)
          /\ ~IsMarkedHidden(hiddenUsers, x.user.id)

\* C3: while the hidden preferences are loading, `images` is empty, whatever
\* pages have been fetched and whoever owns their images.
C3_EmptyWhileLoading ==
    isLoadingHidden => images = <<>>

\* two pages have arrived while the preferences are loading, one of them with
\* a scanned image of the viewer
C3_Witness ==
    /\ isLoadingHidden
    /\ Len(data) = 2
    /\ \E x \in AllItems : IsCurrentUser(x, currentUser) /\ x.ingestion = "Scanned"

----------------------------------------------------------------------------
(* Card height of ImagesAsPostsCard                                        *)

DimValues == {100 * k : k \in 0..MaxDimK}
CardWidths == {50 * k : k \in (-1)..MaxWidthK}

\* cover images: width and height are nullable
Covers ==
    {[id |-> 1]}
    \cup {[id |-> 1, width |-> w] : w \in DimValues}
    \cup {[id |-> 1, height |-> h] : h \in DimValues}
    \cup {[id |-> 1, width |-> w, height |-> h] : w \in DimValues, h \in DimValues}

\* !cover.width, !cover.height: null, undefined and 0 are falsy
Falsy(c, field) == field \notin DOMAIN c \/ c[field] = 0

Min(a, b) == IF a < b THEN a ELSE b

\* Math.floor(width / (coverWidth / coverHeight)) for positive operands; on
\* the widths and dimensions of this model the IEEE double result is the
\* exact quotient's floor
FloorDivRatio(width, coverWidth, coverHeight) == (width * coverHeight) \div coverWidth

\* mutant: the result is not clamped
Height_NoClamp(cw, c) ==
    IF Falsy(c, "width") \/ Falsy(c, "height") THEN 300
    ELSE LET width == IF cw > 0 THEN cw ELSE 300
             imageHeight == FloorDivRatio(width, c.width, c.height)
                              + (IF c.width >= c.height THEN 60 ELSE 0)
         IN  imageHeight

\* const height = useMemo(() => {...}, [cardWidth, cover.width, cover.height])
Height(cw, c) ==
    IF Falsy(c, "width") \/ Falsy(c, "height") THEN 300
    ELSE LET width == IF cw > 0 THEN cw ELSE 300
             imageHeight == FloorDivRatio(width, c.width, c.height)
                              + (IF c.width >= c.height THEN 60 ELSE 0)
         IN  Min(imageHeight, 600)

\* the card renders for the first time
Render ==
    /\ ~mounted
    /\ mounted' = TRUE
    /\ height' = Height(cardWidth, cover)
    /\ UNCHANGED <<cardWidth, cover>>

\* the masonry column is resized: the card re-renders with a new width
Resize ==
    /\ mounted
    /\ cardWidth' \in CardWidths \ {cardWidth}
    /\ height' = Height(cardWidth', cover)
    /\ UNCHANGED <<cover, mounted>>

InitCard ==
    /\ ViewIdle
    /\ PagingIdle
    /\ FilterIdle
    /\ cardWidth \in CardWidths
    /\ cover \in Covers
    /\ mounted = FALSE
    /\ height = 0

NextCard ==
    \/ Render /\ UNCHANGED <<viewVars, pagingVars, filterVars>>
    \/ Resize /\ UNCHANGED <<viewVars, pagingVars, filterVars>>

SpecCard == InitCard /\ [][NextCard]_vars

----------------------------------------------------------------------------
(* Claims about the card height                                            *)

Present(c, field) == field \in DOMAIN c

\* the result claimed for a cover with both dimensions positive: q is the
\* floor of w / (width / height) iff q * width <= w * height < (q + 1) * width
IsClampedHeight(h, w, c) ==
    LET bonus == IF c.width >= c.height THEN 60 ELSE 0
        q == h - bonus
    IN  /\ h <= 600
        /\ h < 600 => (q * c.width <= w * c.height /\ w * c.height < (q + 1) * c.width)
        /\ h = 600 => (600 - bonus) * c.width <= w * c.height

\* C7 as stated, for covers whose dimensions are absent or positive: the
\* height is 300 when a dimension is missing, and otherwise
\* min(floor(cardWidth / aspectRatio) + (aspectRatio >= 1 ? 60 : 0), 600), for
\* EVERY card width.
C7_Original ==
    mounted =>
        IF ~Present(cover, "width") \/ ~Present(cover, "height") THEN height = 300
        ELSE (cover.width > 0 /\ cover.height > 0)
                => IsClampedHeight(height, cardWidth, cover)

\* C7 amended: the height is 300 when the cover's width or height is missing
\* or zero, and otherwise min(floor(w / aspectRatio) + (aspectRatio >= 1 ? 60
\* : 0), 600), where w is the card width when that is positive and 300 when it
\* is not; so it never exceeds 600, and a card width of 450 with a 900x600
\* cover gives 360.
C7_CardHeight ==
    mounted =>
        /\ IF Falsy(cover, "width") \/ Falsy(cover, "height") THEN height = 300
           ELSE IsClampedHeight(height, IF cardWidth > 0 THEN cardWidth ELSE 300, cover)
        /\ height <= 600
        /\ (cardWidth = 450 /\ cover = [id |-> 1, width |-> 900, height |-> 600])
              => height = 360

\* the card of width 450 rendered a 900x600 cover at height 360
C7_Witness ==
    /\ mounted
    /\ cardWidth = 450
    /\ cover = [id |-> 1, width |-> 900, height |-> 600]
    /\ height = 360

----------------------------------------------------------------------------
(* Claims about paging                                                     *)

\* C4: the paging effect calls fetchNextPage only from a state where the
\* sentinel is in the viewport, no fetch is in flight and no error is present;
\* in particular no step taken while isError is set is a call by the effect.
C4_TriggerGuard ==
    [][(callLog' = "effect" => (inView /\ ~isFetching /\ ~isError))
       /\ (isError => callLog' # "effect")]_vars

\* the effect called fetchNextPage for the third page, which is now in flight
C4_Witness ==
    /\ callLog = "effect"
    /\ Len(pages) = 2
    /\ requests = <<[kind |-> "next", param |-> 3]>>

\* the accumulated pages are the pages of the remote source in request order
PagesInOrder == \A i \in 1..Len(pages) : pages[i].index = i

\* C5: fetchNextPage issues a request only when no fetch is in flight and the
\* last page carries a next cursor; called while a fetch is in flight, or
\* without a next cursor, it leaves pages and requests unchanged; at most one
\* request is outstanding at any time and no page is appended twice.
C5_FetchNext ==
    /\ [](Len(requests) <= 1 /\ PagesInOrder /\ Len(pages) <= total)
    /\ [][(/\ callLog' # "none" /\ Len(requests') > Len(requests))
            => (~isFetching /\ hasNextPage)]_vars
    /\ [][(callLog' # "none" /\ (isFetching \/ ~hasNextPage))
            => (pages' = pages /\ requests' = requests)]_vars

\* fetchNextPage was called by a consumer while the request for the third
\* page was in flight
C5_Witness ==
    /\ callLog = "consumer"
    /\ isFetching
    /\ Len(pages) = 2
    /\ requests = <<[kind |-> "next", param |-> 3]>>

\* C9: with the sentinel in view whenever rendered and every fetch succeeding,
\* a state with a next cursor, the sentinel in view and no fetch in flight
\* leads to a fetch, and eventually all pages are loaded for good: no next
\* cursor, no request in flight, the sentinel not rendered.
C9_PagingProgress ==
    /\ (hasNextPage /\ inView /\ ~isFetching) ~> isFetching
    /\ <>[](/\ Len(pages) = total
            /\ ~hasNextPage
            /\ requests = <<>>
            /\ ~isFetching
            /\ ~SentinelRendered
            /\ ~inView)

\* the last of at least three pages has arrived
C9_Witness ==
    /\ total >= 3
    /\ Len(pages) = total
    /\ requests = <<>>
    /\ ~inView

----------------------------------------------------------------------------
(* Specification of the Feed view state                                    *)

InitView ==
    /\ CardIdle
    /\ ViewIdle
    /\ PagingIdle
    /\ FilterIdle

NextView ==
    \/ ToggleLayout /\ UNCHANGED <<pagingVars, filterVars, cardVars>>
    \/ CheckboxClick /\ UNCHANGED <<pagingVars, filterVars, cardVars>>
    \/ CreateVariantClick /\ UNCHANGED <<pagingVars, filterVars, cardVars>>
    \/ DeselectClick /\ UNCHANGED <<pagingVars, filterVars, cardVars>>
    \/ CloseModal /\ UNCHANGED <<pagingVars, filterVars, cardVars>>

SpecView == InitView /\ [][NextView]_vars

----------------------------------------------------------------------------
(* Claims about the Feed view state                                        *)

IsCheck(op) == op.op = "checkbox" /\ op.checked
IsUncheck(op) == op.op = "checkbox" /\ ~op.checked

\* C6 as stated: for ANY selection and any id X, onCheckboxClick(X, checked)
\* followed by onCheckboxClick(X, unchecked) gives back the selection that
\* preceded the two toggles.
C6_Original ==
    [][(IsCheck(lastOp) /\ IsUncheck(lastOp') /\ lastOp'.id = lastOp.id)
         => state'.selectedItems = before.selectedItems]_vars

\* C6 amended: for any selection and any id X that is NOT in the selection,
\* onCheckboxClick(X, checked) followed by onCheckboxClick(X, unchecked) gives
\* back the selection that preceded the two toggles.
C6_CheckUncheckRestores ==
    [][(/\ IsCheck(lastOp)
        /\ lastOp.id \notin Range(before.selectedItems)
        /\ IsUncheck(lastOp')
        /\ lastOp'.id = lastOp.id)
         => state'.selectedItems = before.selectedItems]_vars

\* an id was checked on top of a selection of two other ids, then unchecked
C6_Witness ==
    /\ IsUncheck(lastOp)
    /\ Len(state.selectedItems) = 2
    /\ before.selectedItems = Append(state.selectedItems, lastOp.id)
    /\ lastOp.id \notin Range(state.selectedItems)

\* C8: every Feed transition changes exactly the fields it names:
\* request-variant makes the selection <<id>> and opens the modal, close-modal
\* closes the modal and empties the selection (both keep layout); deselect-all
\* empties the selection and keeps modal flag and layout; toggle-layout flips
\* layout between grid and list and keeps selection and modal flag;
\* toggle-checkbox keeps layout and modal flag.
C8_FrameEffects ==
    /\ lastOp.op = "createVariant" =>
          state = [layout |-> before.layout,
                   selectedItems |-> <<lastOp.id>>,
                   variantModalOpened |-> TRUE]
    /\ lastOp.op = "close" =>
          state = [layout |-> before.layout,
                   selectedItems |-> <<>>,
                   variantModalOpened |-> FALSE]
    /\ lastOp.op = "deselect" =>
          state = [layout |-> before.layout,
                   selectedItems |-> <<>>,
                   variantModalOpened |-> before.variantModalOpened]
    /\ lastOp.op = "toggleLayout" =>
          /\ state.layout \in {"grid", "list"}
          /\ state.layout # before.layout
          /\ state.selectedItems = before.selectedItems
          /\ state.variantModalOpened = before.variantModalOpened
    /\ lastOp.op = "checkbox" =>
          /\ state.layout = before.layout
          /\ state.variantModalOpened = before.variantModalOpened

\* the modal was closed in list layout over a selection of two items
C8_Witness ==
    /\ lastOp.op = "close"
    /\ before.variantModalOpened
    /\ Len(before.selectedItems) >= 2
    /\ before.layout = "list"

\* C10: a transition that starts from a selection without duplicates, and is
\* not a check of an id that is already selected, ends in a selection without
\* duplicates, where selectCount equals the number of distinct selected ids.
\* The initial selection is empty, so the selection stays duplicate-free along
\* every sequence of transitions that never checks a selected id.
C10_NoDuplicates ==
    [][(/\ NoDuplicates(state.selectedItems)
        /\ ~(IsCheck(lastOp') /\ lastOp'.id \in Range(state.selectedItems)))
         => (/\ NoDuplicates(state'.selectedItems)
             /\ selectCount(state') = Cardinality(Range(state'.selectedItems)))]_vars

\* a variant was requested for an id on top of a selection holding that id
C10_Witness ==
    /\ lastOp.op = "createVariant"
    /\ lastOp.id \in Range(before.selectedItems)
    /\ Len(before.selectedItems) >= 2
    /\ NoDuplicates(before.selectedItems)

====
